---------------------------- MODULE Spec2Model ----------------------------
(***************************************************************************)
(* Swerve-drive kinematics and odometry (wpilib.kinematics.swerve) over    *)
(* the planar geometry types (wpilib.geometry).                            *)
(*                                                                         *)
(* Python floats are modelled as exact real numbers of the form            *)
(*     m/pi + z + p*pi        (m, z, p rational)                           *)
(* which is closed under every operation the modelled runs perform:        *)
(* module geometry and wheel speeds are rational, headings are multiples   *)
(* of a quarter turn, and Pose2d.exp divides by such a heading change.     *)
(* Rounding error is not modelled; the explicit tolerances of the code     *)
(* (1e-6 in Rotation2d, 1e-9 in Pose2d.exp, math.isclose) are.             *)
(***************************************************************************)
EXTENDS Integers, Sequences, FiniteSets, TLC

VARIABLES kinematics, odometry, last, calls

vars == <<kinematics, odometry, last, calls>>

(***************************************************************************)
(* Rational numbers <<n, d>> in lowest terms, d > 0.                       *)
(***************************************************************************)
Abs(i) == IF i < 0 THEN -i ELSE i

RECURSIVE GCD(_, _)
GCD(a, b) == IF b = 0 THEN a ELSE GCD(b, a % b)

Q(n, d) ==
    LET s == IF d < 0 THEN -1 ELSE 1
        g == GCD(Abs(n), Abs(d))
    IN  <<(s * n) \div g, (s * d) \div g>>

QInt(i) == <<i, 1>>

QNeg(a) == <<-a[1], a[2]>>

QAbs(a) == <<Abs(a[1]), a[2]>>

QAdd(a, b) ==
    LET g == GCD(a[2], b[2])
    IN  Q(a[1] * (b[2] \div g) + b[1] * (a[2] \div g), (a[2] \div g) * b[2])

QSub(a, b) == QAdd(a, QNeg(b))

QMul(a, b) ==
    LET g1 == GCD(Abs(a[1]), b[2])
        g2 == GCD(Abs(b[1]), a[2])
    IN  IF a[1] = 0 \/ b[1] = 0 THEN <<0, 1>>
        ELSE <<(a[1] \div g1) * (b[1] \div g2), (a[2] \div g2) * (b[2] \div g1)>>

QInv(a) == IF a[1] < 0 THEN <<-a[2], -a[1]>> ELSE <<a[2], a[1]>>

QDiv(a, b) == QMul(a, QInv(b))

\* a < b, by comparing integer parts and then the reciprocals of the fractional
\* parts, so that no product is formed
RECURSIVE QLt(_, _)
QLt(a, b) ==
    LET fa == a[1] \div a[2]
        fb == b[1] \div b[2]
        ra == a[1] % a[2]
        rb == b[1] % b[2]
    IN  IF fa # fb THEN fa < fb
        ELSE IF rb = 0 THEN FALSE
        ELSE IF ra = 0 THEN TRUE
        ELSE QLt(<<b[2], rb>>, <<a[2], ra>>)

QLe(a, b) == ~QLt(b, a)

QMax(a, b) == IF QLt(a, b) THEN b ELSE a

QMin(a, b) == IF QLt(a, b) THEN a ELSE b

\* a > 1/k and a <= 1/k for a >= 0 and an integer k > 0, without forming a * k
QGtInvInt(a, k) == a[1] > a[2] \div k

QLeInvInt(a, k) == a[1] <= a[2] \div k

(***************************************************************************)
(* The float model: m/pi + z + p*pi.                                       *)
(***************************************************************************)
QZero == <<0, 1>>

Num(m, z, p) == [m |-> m, z |-> z, p |-> p]

NQ(q) == Num(QZero, q, QZero)

NInt(i) == NQ(QInt(i))

NFrac(n, d) == NQ(Q(n, d))

\* (p/q) * pi
NPi(n, d) == Num(QZero, QZero, Q(n, d))

NIsQ(a) == a.m = QZero /\ a.p = QZero

NIsZero(a) == a.m = QZero /\ a.z = QZero /\ a.p = QZero

NNeg(a) == Num(QNeg(a.m), QNeg(a.z), QNeg(a.p))

NAdd(a, b) ==
    IF NIsQ(a) /\ NIsQ(b) THEN NQ(QAdd(a.z, b.z))
    ELSE Num(QAdd(a.m, b.m), QAdd(a.z, b.z), QAdd(a.p, b.p))

NSub(a, b) == NAdd(a, NNeg(b))

\* The product; the pi^2 and pi^-2 terms vanish in every product the model forms
\* (a value outside the representation is the string "unrepresentable").
NMul(a, b) ==
    IF NIsQ(a) /\ NIsQ(b) THEN NQ(QMul(a.z, b.z))
    ELSE IF QMul(a.m, b.m) # QZero \/ QMul(a.p, b.p) # QZero THEN "unrepresentable"
    ELSE Num(QAdd(QMul(a.m, b.z), QMul(a.z, b.m)),
             QAdd(QAdd(QMul(a.m, b.p), QMul(a.z, b.z)), QMul(a.p, b.m)),
             QAdd(QMul(a.z, b.p), QMul(a.p, b.z)))

\* The reciprocal of a single term (a rational, a multiple of pi or of 1/pi)
NInv(b) ==
    IF NIsQ(b) THEN NQ(QInv(b.z))
    ELSE IF b.m = QZero /\ b.z = QZero THEN Num(QInv(b.p), QZero, QZero)
    ELSE IF b.p = QZero /\ b.z = QZero THEN Num(QZero, QZero, QInv(b.m))
    ELSE "unrepresentable"

\* The quotient by a single-term divisor
NDiv(a, b) == NMul(a, NInv(b))

\* Order, on the values the model compares: a rational against a rational, or a
\* non-zero multiple of pi against a rational of absolute value at most 3.
NSign(a) ==
    IF NIsQ(a) THEN (IF a.z[1] < 0 THEN -1 ELSE IF a.z[1] > 0 THEN 1 ELSE 0)
    ELSE IF a.m = QZero /\ QLe(QAbs(a.z), QMul(QInt(3), QAbs(a.p)))
         THEN (IF a.p[1] < 0 THEN -1 ELSE 1)
    ELSE 2

NAbs(a) == IF NSign(a) < 0 THEN NNeg(a) ELSE a

NLt(a, b) ==
    IF NIsQ(a) /\ NIsQ(b) THEN QLt(a.z, b.z) ELSE NSign(NSub(a, b)) < 0

NMaxOf(a, b) == IF NLt(a, b) THEN b ELSE a

NMinOf(a, b) == IF NLt(a, b) THEN a ELSE b

\* a > 1/k, for a >= 0: a multiple of pi in the model is at least pi/2
NGtInvInt(a, k) == IF NIsQ(a) THEN QGtInvInt(a.z, k) ELSE NSign(a) > 0

\* The integer square root of a perfect square, -1 otherwise
ISqrt(n) ==
    IF \E k \in 0..n : k * k = n THEN CHOOSE k \in 0..n : k * k = n ELSE -1

\* math.hypot on rationals: scaled by the larger component, as libm does, so that
\* very small and very large components do not overflow
HypotRatio(a, b) ==
    LET lo == QMin(QAbs(a), QAbs(b))
        hi == QMax(QAbs(a), QAbs(b))
    IN  IF lo = QZero THEN QZero ELSE QDiv(lo, hi)

\* Whether hypot(x, y) is a rational the model can compute
MaxRoot == 1000

\* sqrt(1 + r^2) for a ratio r, when it is rational
RootOfOnePlusSquare(r) == Q(ISqrt(r[1] * r[1] + r[2] * r[2]), r[2])

HasExactRoot(r) == r[2] <= MaxRoot /\ ISqrt(r[1] * r[1] + r[2] * r[2]) >= 0

HypotExact(x, y) ==
    NIsQ(x) /\ NIsQ(y) /\ HasExactRoot(HypotRatio(x.z, y.z))

Hypot(x, y) ==
    NQ(QMul(QMax(QAbs(x.z), QAbs(y.z)), RootOfOnePlusSquare(HypotRatio(x.z, y.z))))

\* math.isclose(a, b) with the default rel_tol = 1e-9, abs_tol = 0
RelTolInv == 1000000000

IsClose(a, b) ==
    \/ a = b
    \/ /\ NIsQ(a) /\ NIsQ(b)
       /\ LET diff == QAbs(QSub(a.z, b.z))
              big == QMax(QAbs(a.z), QAbs(b.z))
          IN  QLeInvInt(QDiv(diff, big), RelTolInv)

(***************************************************************************)
(* Angles in radians.  An angle is kept as its direction (c, s) = (cos,    *)
(* sin) and the number w of whole turns added to its principal value in    *)
(* (-pi, pi]: the angle is atan2(s, c) + 2*pi*w.                           *)
(***************************************************************************)
Angle(c, s, w) == [c |-> c, s |-> s, w |-> w]

MathCos(value) == value.c

MathSin(value) == value.s

\* math.atan2(sin, cos) for a unit vector (cos, sin): the principal angle
Atan2(sin, cos) == Angle(cos, sin, 0)

\* -value
AngleNeg(value) ==
    IF value.c = NInt(-1) THEN Angle(value.c, value.s, -value.w - 1)
    ELSE Angle(value.c, NNeg(value.s), -value.w)

\* The number of quarter turns of an angle whose direction lies on an axis
QuarterTurns(value) ==
    4 * value.w + (IF value.c = NInt(1) THEN 0
                   ELSE IF value.s = NInt(1) THEN 1
                   ELSE IF value.c = NInt(-1) THEN 2
                   ELSE -1)

OnAxis(value) ==
    {value.c, value.s} \subseteq {NInt(-1), NInt(0), NInt(1)}

\* The angle as a number, when it is a multiple of a quarter turn
AngleNum(value) ==
    IF OnAxis(value) THEN NPi(QuarterTurns(value), 2) ELSE "unrepresentable"

\* math.isclose(a, b) on two angles
AngleIsClose(a, b) ==
    \/ a = b
    \/ OnAxis(a) /\ OnAxis(b) /\ QuarterTurns(a) = QuarterTurns(b)

\* The angle of q quarter turns, q * pi/2
Quarter(q) == Angle(IF q % 4 = 0 THEN NInt(1) ELSE IF q % 4 = 2 THEN NInt(-1) ELSE NInt(0),
                IF q % 4 = 1 THEN NInt(1) ELSE IF q % 4 = 3 THEN NInt(-1) ELSE NInt(0),
                IF q % 4 = 3 THEN (q + 1) \div 4 - 0 ELSE q \div 4)

(***************************************************************************)
(* wpilib.geometry.Rotation2d                                              *)
(***************************************************************************)
MagnitudeTolInv == 1000000

\* Rotation2d()
_zero_rotation == [value |-> Angle(NInt(1), NInt(0), 0), cos |-> NInt(1), sin |-> NInt(0)]

\* Rotation2d(value)
Rotation2d(value) ==
    [value |-> value, cos |-> MathCos(value), sin |-> MathSin(value)]

\* Mutation: a vector of no length is stored as it is
UnitVectorUnguarded(x, y, magnitude) ==
    IF NGtInvInt(magnitude, MagnitudeTolInv)
    THEN [cos |-> NDiv(x, magnitude), sin |-> NDiv(y, magnitude)]
    ELSE [cos |-> x, sin |-> y]

\* The cos and sin Rotation2d(x, y) stores, for magnitude = math.hypot(x, y)
UnitVector(x, y, magnitude) ==
    IF NGtInvInt(magnitude, MagnitudeTolInv)
    THEN [cos |-> NDiv(x, magnitude), sin |-> NDiv(y, magnitude)]
    ELSE [cos |-> NInt(1), sin |-> NInt(0)]

\* The rotation with cos and sin u: value = math.atan2(sin, cos)
RotationAlong(u) == [value |-> Atan2(u.sin, u.cos), cos |-> u.cos, sin |-> u.sin]

\* Rotation2d(x, y)
Rotation2dXY(x, y) == RotationAlong(UnitVector(x, y, Hypot(x, y)))

\* Mutation: the sine of the difference in place of the sine of the sum
Rotation2d_addConjugate(self, other) ==
    LET cos_a == self.cos
        cos_b == other.cos
        sin_a == self.sin
        sin_b == other.sin
    IN  Rotation2dXY(NSub(NMul(cos_a, cos_b), NMul(sin_a, sin_b)),
                     NSub(NMul(cos_a, sin_b), NMul(sin_a, cos_b)))

Rotation2d_add(self, other) ==
    LET cos_a == self.cos
        cos_b == other.cos
        sin_a == self.sin
        sin_b == other.sin
    IN  Rotation2dXY(NSub(NMul(cos_a, cos_b), NMul(sin_a, sin_b)),
                     NAdd(NMul(cos_a, sin_b), NMul(sin_a, cos_b)))

\* Mutation: the angle is negated but the stored sine is kept
Rotation2d_negKeepingSin(self) ==
    [value |-> AngleNeg(self.value), cos |-> self.cos, sin |-> self.sin]

Rotation2d_neg(self) == Rotation2d(AngleNeg(self.value))

Rotation2d_sub(self, other) == Rotation2d_add(self, Rotation2d_neg(other))

Rotation2d_eq(self, other) == AngleIsClose(self.value, other.value)

getRadians(self) == self.value

\* math.radians(degrees)
MathRadians(degrees) == NMul(degrees, NPi(1, 180))

\* math.degrees(radians)
MathDegrees(radians) == NMul(radians, Num(QInt(180), QZero, QZero))

\* The angle of x radians, for x a multiple of a quarter turn
AngleOf(x) ==
    IF x.m = QZero /\ x.z = QZero /\ QMul(QInt(2), x.p)[2] = 1
    THEN Quarter(QMul(QInt(2), x.p)[1])
    ELSE "unrepresentable"

\* Rotation2d.fromDegrees(degrees)
fromDegrees(degrees) == Rotation2d(AngleOf(MathRadians(degrees)))

\* Rotation2d(self.value * other)
Rotation2d_mul(self, other) ==
    Rotation2d(AngleOf(NMul(AngleNum(self.value), other)))

getDegrees(self) == MathDegrees(AngleNum(self.value))

(***************************************************************************)
(* wpilib.geometry.Translation2d                                           *)
(***************************************************************************)
Translation2d(x, y) == [x |-> x, y |-> y]

_identity_translation == Translation2d(NInt(0), NInt(0))

rotateBy(self, other) ==
    LET x == self.x
        y == self.y
        cos == other.cos
        sin == other.sin
    IN  Translation2d(NSub(NMul(x, cos), NMul(y, sin)),
                      NAdd(NMul(x, sin), NMul(y, cos)))

Translation2d_add(self, other) ==
    Translation2d(NAdd(self.x, other.x), NAdd(self.y, other.y))

Translation2d_sub(self, other) ==
    Translation2d(NSub(self.x, other.x), NSub(self.y, other.y))

Translation2d_mul(self, other) ==
    Translation2d(NMul(self.x, other), NMul(self.y, other))

Translation2d_eq(self, other) ==
    IsClose(self.x, other.x) /\ IsClose(self.y, other.y)

(***************************************************************************)
(* wpilib.geometry: Twist2d, Transform2d, Pose2d                           *)
(***************************************************************************)
Twist2d(dx, dy, dtheta) == [dx |-> dx, dy |-> dy, dtheta |-> dtheta]

Transform2d(translation, rotation) ==
    [translation |-> translation, rotation |-> rotation]

Pose2d(translation, rotation) ==
    [translation |-> translation, rotation |-> rotation]

Pose2d_add(self, other) ==
    Pose2d(Translation2d_add(self.translation,
                             rotateBy(other.translation, self.rotation)),
           Rotation2d_add(self.rotation, other.rotation))

SmallAngleInv == 1000000000

\* abs(dtheta) < 1e-9
IsSmallAngle(dtheta) ==
    NLt(NAbs(AngleNum(dtheta)), NFrac(1, SmallAngleInv))

\* Mutation: the small-angle c is 0.5, not 0.5 * dtheta
ExpFactorsAtHalf(dtheta, theta) ==
    IF IsSmallAngle(dtheta)
    THEN [s |-> NSub(NInt(1), NMul(NFrac(1, 6), NMul(theta, theta))),
          c |-> NFrac(1, 2)]
    ELSE [s |-> NDiv(MathSin(dtheta), theta),
          c |-> NDiv(NSub(NInt(1), MathCos(dtheta)), theta)]

\* The factors s and c of Pose2d.exp, for theta the number dtheta
ExpFactorsAt(dtheta, theta) ==
    IF IsSmallAngle(dtheta)
    THEN [s |-> NSub(NInt(1), NMul(NFrac(1, 6), NMul(theta, theta))),
          c |-> NMul(NFrac(1, 2), theta)]
    ELSE [s |-> NDiv(MathSin(dtheta), theta),
          c |-> NDiv(NSub(NInt(1), MathCos(dtheta)), theta)]

ExpFactors(dtheta) == ExpFactorsAt(dtheta, AngleNum(dtheta))

\* The transform of Pose2d.exp, for the factors f
ExpTransform(twist, f) ==
    Transform2d(
        Translation2d(NSub(NMul(twist.dx, f.s), NMul(twist.dy, f.c)),
                      NAdd(NMul(twist.dx, f.c), NMul(twist.dy, f.s))),
        Rotation2dXY(MathCos(twist.dtheta), MathSin(twist.dtheta)))

exp(self, twist) == Pose2d_add(self, ExpTransform(twist, ExpFactors(twist.dtheta)))

\* The dataclass equality of Pose2d: both fields equal
Pose2d_eq(self, other) ==
    /\ Translation2d_eq(self.translation, other.translation)
    /\ Rotation2d_eq(self.rotation, other.rotation)

\* Mutation: the difference of the translations is left in the field frame
Pose2d_subUnrotated(self, other) ==
    Transform2d(Translation2d_sub(self.translation, other.translation),
                Rotation2d_sub(self.rotation, other.rotation))

Pose2d_sub(self, other) ==
    Transform2d(rotateBy(Translation2d_sub(self.translation, other.translation),
                         Rotation2d_neg(other.rotation)),
                Rotation2d_sub(self.rotation, other.rotation))

\* Pose2d(transform.translation, transform.rotation)
PoseOf(transform) == Pose2d(transform.translation, transform.rotation)

relativeTo(self, other) == PoseOf(Pose2d_sub(self, other))

SmallCosInv == 1000000000

\* Mutation: the factor without its minus sign
LogFactorUnsigned(rotation, dtheta, half_dtheta, cos_minus_one) ==
    IF NLt(NAbs(cos_minus_one), NFrac(1, SmallCosInv))
    THEN NSub(NInt(1), NMul(NFrac(1, 12), NMul(dtheta, dtheta)))
    ELSE NDiv(NMul(half_dtheta, rotation.sin), cos_minus_one)

\* half_theta_by_tan_half_dtheta of Pose2d.log
LogFactor(rotation, dtheta, half_dtheta, cos_minus_one) ==
    IF NLt(NAbs(cos_minus_one), NFrac(1, SmallCosInv))
    THEN NSub(NInt(1), NMul(NFrac(1, 12), NMul(dtheta, dtheta)))
    ELSE NDiv(NNeg(NMul(half_dtheta, rotation.sin)), cos_minus_one)

\* translation.rotateBy(Rotation2d(x, y)) * math.hypot(x, y).  Rotation2d(x, y)
\* holds (x, y) / hypot(x, y) when the hypot exceeds 1e-6, as it does when |x| or
\* |y| does, and the product is then the translation turned and scaled by (x, y);
\* it holds (1, 0) when x = y = 0, and the product is then zero.
RotateScaled(translation, x, y) ==
    IF NGtInvInt(NMaxOf(NAbs(x), NAbs(y)), MagnitudeTolInv)
    THEN rotateBy(translation, [cos |-> x, sin |-> y])
    ELSE IF NIsZero(x) /\ NIsZero(y)
    THEN Translation2d_mul(rotateBy(translation, _zero_rotation), NInt(0))
    ELSE "unrepresentable"

\* translation_part of Pose2d.log
LogPart(transform, dtheta, half_dtheta) ==
    RotateScaled(transform.translation,
                 LogFactor(transform.rotation, dtheta, half_dtheta,
                           NSub(transform.rotation.cos, NInt(1))),
                 NNeg(half_dtheta))

\* Twist2d(translation_part.x, translation_part.y, dtheta)
LogTwist(translation_part, dtheta) ==
    Twist2d(translation_part.x, translation_part.y, dtheta)

\* The twist of Pose2d.log for transform = end - self, theta the number dtheta
LogAt(transform, theta) ==
    LogTwist(LogPart(transform, theta, NMul(NFrac(1, 2), theta)),
             transform.rotation.value)

LogOf(transform) == LogAt(transform, AngleNum(transform.rotation.value))

log(self, end) == LogOf(Pose2d_sub(end, self))

(***************************************************************************)
(* Matrices (numpy arrays): sequences of rows.                             *)
(***************************************************************************)
\* <<F(1), ..., F(n)>>, built element by element
RECURSIVE SeqFrom(_, _, _)
SeqFrom(F(_), i, n) == IF i > n THEN <<>> ELSE <<F(i)>> \o SeqFrom(F, i + 1, n)

Tabulate(n, F(_)) == SeqFrom(F, 1, n)

RECURSIVE DotFrom(_, _, _)
DotFrom(u, v, i) ==
    IF i > Len(u) THEN NInt(0)
    ELSE NAdd(NMul(u[i], v[i]), DotFrom(u, v, i + 1))

Dot(u, v) == DotFrom(u, v, 1)

Column(M, j) == Tabulate(Len(M), LAMBDA i : M[i][j])

Transpose(M) == Tabulate(Len(M[1]), LAMBDA j : Column(M, j))

\* M @ v
MatVec(M, v) == Tabulate(Len(M), LAMBDA i : Dot(M[i], v))

\* A @ B
MatMul(A, B) ==
    LET Bt == Transpose(B)
    IN  Tabulate(Len(A), LAMBDA i : Tabulate(Len(Bt), LAMBDA j : Dot(A[i], Bt[j])))

Det2(M) == NSub(NMul(M[1][1], M[2][2]), NMul(M[1][2], M[2][1]))

\* The adjugate of M times r
ScaledAdjugate2(M, r) ==
    << <<NMul(M[2][2], r), NMul(NNeg(M[1][2]), r)>>,
       <<NMul(NNeg(M[2][1]), r), NMul(M[1][1], r)>> >>

Inv2(M) == ScaledAdjugate2(M, NInv(Det2(M)))

\* The minor of M without row i and column j
Minor3(M, i, j) ==
    LET rs == IF i = 1 THEN <<2, 3>> ELSE IF i = 2 THEN <<1, 3>> ELSE <<1, 2>>
        cs == IF j = 1 THEN <<2, 3>> ELSE IF j = 2 THEN <<1, 3>> ELSE <<1, 2>>
    IN  Det2(<< <<M[rs[1]][cs[1]], M[rs[1]][cs[2]]>>,
                <<M[rs[2]][cs[1]], M[rs[2]][cs[2]]>> >>)

Signed(even, a) == IF even THEN a ELSE NNeg(a)

Cofactor3(M, i, j) == Signed((i + j) % 2 = 0, Minor3(M, i, j))

Det3(M) ==
    NAdd(NAdd(NMul(M[1][1], Cofactor3(M, 1, 1)), NMul(M[1][2], Cofactor3(M, 1, 2))),
         NMul(M[1][3], Cofactor3(M, 1, 3)))

\* The adjugate of M times r
ScaledAdjugate3(M, r) ==
    Tabulate(3, LAMBDA i : Tabulate(3, LAMBDA j : NMul(Cofactor3(M, j, i), r)))

Inv3(M) == ScaledAdjugate3(M, NInv(Det3(M)))

\* numpy.linalg.pinv of a matrix with three columns of which the first two are
\* independent: (A^T A)^-1 A^T at full column rank; otherwise, with A = B C the
\* rank factorisation over the first two columns B, C^T (C C^T)^-1 (B^T B)^-1 B^T
FirstTwoColumns(A) == Tabulate(Len(A), LAMBDA i : <<A[i][1], A[i][2]>>)

\* (B^T B)^-1 B^T
LeftInverse2(B) == MatMul(Inv2(MatMul(Transpose(B), B)), Transpose(B))

\* C^T (C C^T)^-1
RightInverse2(C) == MatMul(Transpose(C), Inv2(MatMul(C, Transpose(C))))

\* The factor C = [I | k] of A = B C
RankFactor(k) == << <<NInt(1), NInt(0), k[1]>>, <<NInt(0), NInt(1), k[2]>> >>

PinvRankTwo(A, Bp) ==
    MatMul(RightInverse2(RankFactor(MatVec(Bp, Column(A, 3)))), Bp)

\* The pseudoinverse of A, for G = A^T A
PinvByGram(A, G, d) ==
    IF ~NIsZero(d) THEN MatMul(ScaledAdjugate3(G, NInv(d)), Transpose(A))
    ELSE PinvRankTwo(A, LeftInverse2(FirstTwoColumns(A)))

PinvOver(A, G) == PinvByGram(A, G, Det3(G))

pinv(A) == PinvOver(A, MatMul(Transpose(A), A))

(***************************************************************************)
(* wpilib.kinematics: ChassisSpeeds, SwerveModuleState,                    *)
(* SwerveDriveKinematics                                                   *)
(***************************************************************************)
ChassisSpeeds(vx, vy, omega) == [vx |-> vx, vy |-> vy, omega |-> omega]

\* Mutation: the velocity is turned by robotAngle, not by its inverse
fromFieldRelativeSpeedsForward(vx, vy, omega, robotAngle) ==
    ChassisSpeeds(NSub(NMul(vx, robotAngle.cos), NMul(vy, robotAngle.sin)),
                  NAdd(NMul(vx, robotAngle.sin), NMul(vy, robotAngle.cos)),
                  omega)

\* ChassisSpeeds.fromFieldRelativeSpeeds(vx, vy, omega, robotAngle)
fromFieldRelativeSpeeds(vx, vy, omega, robotAngle) ==
    ChassisSpeeds(NAdd(NMul(vx, robotAngle.cos), NMul(vy, robotAngle.sin)),
                  NAdd(NMul(NNeg(vx), robotAngle.sin), NMul(vy, robotAngle.cos)),
                  omega)

SwerveModuleState(speed, angle) == [speed |-> speed, angle |-> angle]

\* Mutation: the center of rotation is left out of the coupling column
CouplingEntryNoCor(modules, r, centerOfRotation) ==
    LET module == modules[(r + 1) \div 2]
    IN  IF r % 2 = 1 THEN NNeg(module.y) ELSE module.x

\* The third column of the inverse-kinematics matrix for a center of rotation:
\* row 2i-1 holds -module.y + cor_y and row 2i holds module.x - cor_x
CouplingEntry(modules, r, centerOfRotation) ==
    LET module == modules[(r + 1) \div 2]
    IN  IF r % 2 = 1 THEN NAdd(NNeg(module.y), centerOfRotation.y)
        ELSE NSub(module.x, centerOfRotation.x)

InverseKinematicsMatrix(modules, centerOfRotation) ==
    Tabulate(2 * Len(modules), LAMBDA r :
        IF r % 2 = 1 THEN <<NInt(1), NInt(0), CouplingEntry(modules, r, centerOfRotation)>>
        ELSE <<NInt(0), NInt(1), CouplingEntry(modules, r, centerOfRotation)>>)

\* Mutation: only an empty list of wheels is refused
ConstructionFailsWhenEmpty(wheels) == ~(Len(wheels) >= 1)

\* assert len(wheels) >= 2 fails
ConstructionFails(wheels) == ~(Len(wheels) >= 2)

\* Mutation: the forward matrix is the transpose, not the pseudoinverse
SwerveDriveKinematicsTransposed(wheels) ==
    LET inverse_kinematics == InverseKinematicsMatrix(wheels, _identity_translation)
    IN  [modules |-> wheels,
         num_modules |-> Len(wheels),
         _inverse_kinematics |-> inverse_kinematics,
         forward_kinematics |-> Transpose(inverse_kinematics),
         _prev_cor |-> _identity_translation]

\* SwerveDriveKinematics.__init__(*wheels), for len(wheels) >= 2
SwerveDriveKinematics(wheels) ==
    LET inverse_kinematics == InverseKinematicsMatrix(wheels, _identity_translation)
    IN  [modules |-> wheels,
         num_modules |-> Len(wheels),
         _inverse_kinematics |-> inverse_kinematics,
         forward_kinematics |-> pinv(inverse_kinematics),
         _prev_cor |-> _identity_translation]

\* prev_cor is not centerOfRotation and prev_cor != centerOfRotation
CorChanged(prev_cor, centerOfRotation) ==
    ~Translation2d_eq(prev_cor, centerOfRotation)

\* Mutation: a changed center of rotation also recomputes the forward matrix
KinematicsAfterInverseRecomputing(self, centerOfRotation) ==
    IF CorChanged(self._prev_cor, centerOfRotation)
    THEN [self EXCEPT
            !._inverse_kinematics = InverseKinematicsMatrix(self.modules, centerOfRotation),
            !.forward_kinematics =
                pinv(InverseKinematicsMatrix(self.modules, centerOfRotation)),
            !._prev_cor = centerOfRotation]
    ELSE self

\* The kinematics object after toSwerveModuleStates(_, centerOfRotation)
KinematicsAfterInverse(self, centerOfRotation) ==
    IF CorChanged(self._prev_cor, centerOfRotation)
    THEN [self EXCEPT
            !._inverse_kinematics = InverseKinematicsMatrix(self.modules, centerOfRotation),
            !._prev_cor = centerOfRotation]
    ELSE self

\* The per-module velocity components inverse_kinematics @ chassis_vel_vec
ModuleVelocities(self, chassisSpeeds, centerOfRotation) ==
    MatVec(KinematicsAfterInverse(self, centerOfRotation)._inverse_kinematics,
           <<chassisSpeeds.vx, chassisSpeeds.vy, chassisSpeeds.omega>>)

\* The list toSwerveModuleStates(chassisSpeeds, centerOfRotation) returns
\* SwerveModuleState(math.hypot(x, y), Rotation2d(x, y))
ModuleStateAlong(x, y) == SwerveModuleState(Hypot(x, y), Rotation2dXY(x, y))

\* The states for the flat vector of velocity components
ModuleStatesOf(module_states) ==
    Tabulate(Len(module_states) \div 2, LAMBDA i :
        ModuleStateAlong(module_states[2 * i - 1], module_states[2 * i]))

ModuleStates(self, chassisSpeeds, centerOfRotation) ==
    ModuleStatesOf(ModuleVelocities(self, chassisSpeeds, centerOfRotation))

\* Mutation: cos and sin exchanged
ModuleStatesVectorSwapped(wheel_states) ==
    Tabulate(2 * Len(wheel_states), LAMBDA r :
        LET module == wheel_states[(r + 1) \div 2]
        IN  IF r % 2 = 1 THEN NMul(module.speed, module.angle.sin)
            ELSE NMul(module.speed, module.angle.cos))

\* The flattened (speed * cos, speed * sin) vector of toChassisSpeeds
ModuleStatesVector(wheel_states) ==
    Tabulate(2 * Len(wheel_states), LAMBDA r :
        LET module == wheel_states[(r + 1) \div 2]
        IN  IF r % 2 = 1 THEN NMul(module.speed, module.angle.cos)
            ELSE NMul(module.speed, module.angle.sin))

\* The value toChassisSpeeds(*wheel_states) returns when the count matches
\* ChassisSpeeds(*chassis_vel_vec)
ChassisSpeedsFrom(chassis_vel_vec) ==
    ChassisSpeeds(chassis_vel_vec[1], chassis_vel_vec[2], chassis_vel_vec[3])

ChassisSpeedsOf(self, wheel_states) ==
    ChassisSpeedsFrom(MatVec(self.forward_kinematics, ModuleStatesVector(wheel_states)))

\* max(module.speed for module in moduleStates), from the i-th module on
RECURSIVE MaxSpeedFrom(_, _)
MaxSpeedFrom(moduleStates, i) ==
    IF i = Len(moduleStates) THEN moduleStates[i].speed
    ELSE NMaxOf(moduleStates[i].speed, MaxSpeedFrom(moduleStates, i + 1))

\* The list with every speed multiplied by factor
ScaledStates(moduleStates, factor) ==
    Tabulate(Len(moduleStates), LAMBDA i :
        SwerveModuleState(NMul(moduleStates[i].speed, factor), moduleStates[i].angle))

\* The list normalizeWheelSpeeds leaves, for real_max_speed the maximum it found
NormalizedFor(moduleStates, attainableMaxSpeed, real_max_speed) ==
    IF NLt(attainableMaxSpeed, real_max_speed)
    THEN ScaledStates(moduleStates, NDiv(attainableMaxSpeed, real_max_speed))
    ELSE moduleStates

\* moduleStates after normalizeWheelSpeeds(moduleStates, attainableMaxSpeed)
NormalizedStates(moduleStates, attainableMaxSpeed) ==
    NormalizedFor(moduleStates, attainableMaxSpeed, MaxSpeedFrom(moduleStates, 1))

\* Mutation: only too few states are refused
UpdateRaisesWhenFewer(kin, module_states) == Len(module_states) < kin.num_modules

\* toChassisSpeeds raises when the number of states is not the number of modules
UpdateRaises(kin, module_states) == Len(module_states) # kin.num_modules

\* The four Penrose conditions: P is the Moore-Penrose pseudoinverse of A
IsPseudoInverse(P, A) ==
    LET AP == MatMul(A, P)
        PA == MatMul(P, A)
    IN  /\ Transpose(AP) = AP
        /\ Transpose(PA) = PA
        /\ MatMul(AP, A) = A
        /\ MatMul(PA, P) = P

T2(x, y) == Translation2d(NInt(x), NInt(y))

(***************************************************************************)
(* The kinematics object in use: the actions of SwerveDriveKinematics.     *)
(* last records the most recent call: its arguments, what it returned or   *)
(* that it raised, and the objects as they were when it was made.          *)
(***************************************************************************)
MaxKinCalls == 2

Objects == [kinematics |-> kinematics, odometry |-> odometry]

\* Module layouts: two modules, two modules off the axes, three modules, and two
\* modules mounted at the same point
WheelSets ==
    { <<T2(1, 0), T2(-1, 0)>>,
      <<T2(3, 4), T2(-3, -4)>>,
      <<T2(1, 0), T2(-1, 0), T2(3, 0)>>,
      <<T2(1, 0), T2(1, 0)>> }

\* Lists of wheels too short for a swerve drive
ShortWheelSets == { <<>>, <<T2(1, 0)>> }

\* Chassis speeds: straight, diagonal, turning, turning while strafing, and a
\* strafe slower than the 1e-6 of Rotation2d
SpeedInputs ==
    { ChassisSpeeds(NInt(5), NInt(0), NInt(0)),
      ChassisSpeeds(NInt(-3), NInt(4), NInt(0)),
      ChassisSpeeds(NInt(0), NInt(0), NInt(1)),
      ChassisSpeeds(NInt(0), NInt(4), NInt(1)),
      ChassisSpeeds(NInt(0), NFrac(1, 2000000), NInt(0)) }

\* Centers of rotation: the robot center, two module positions, and two far
\* points that math.isclose cannot tell apart
CorInputs ==
    { _identity_translation,
      T2(1, 0),
      T2(3, 4),
      T2(1000000, 0),
      Translation2d(NFrac(2000000001, 2000), NInt(0)) }

\* The inputs on which every hypot of the call is computed exactly
AllHypotExact(v) == \A i \in 1..Len(v) \div 2 : HypotExact(v[2 * i - 1], v[2 * i])

ExactInverse(self, chassisSpeeds, centerOfRotation) ==
    AllHypotExact(ModuleVelocities(self, chassisSpeeds, centerOfRotation))

toSwerveModuleStates(chassisSpeeds, centerOfRotation) ==
    /\ ExactInverse(kinematics, chassisSpeeds, centerOfRotation)
    /\ kinematics' = KinematicsAfterInverse(kinematics, centerOfRotation)
    /\ last' = [op |-> "toSwerveModuleStates",
                chassisSpeeds |-> chassisSpeeds,
                centerOfRotation |-> centerOfRotation,
                raised |-> FALSE,
                ret |-> ModuleStates(kinematics, chassisSpeeds, centerOfRotation),
                pre |-> Objects]
    /\ UNCHANGED odometry

\* Measured module states: N modules all driving forward, all driving along
\* (3, 4), a turn in place about the first module, one state too few and one
\* too many
Forward5 == SwerveModuleState(NInt(5), _zero_rotation)

Diagonal5 == SwerveModuleState(NInt(5), Rotation2dXY(NInt(3), NInt(4)))

Turning(n) ==
    Tabulate(n, LAMBDA i : IF i = 1 THEN SwerveModuleState(NInt(0), _zero_rotation)
                           ELSE SwerveModuleState(NInt(2), Rotation2d(Quarter(-1))))

StateInputs(n) ==
    { Tabulate(n, LAMBDA i : Forward5),
      Tabulate(n, LAMBDA i : Diagonal5),
      Turning(n),
      Tabulate(n - 1, LAMBDA i : Forward5),
      Tabulate(n + 1, LAMBDA i : Forward5) }

\* Returned states small enough to be fed back without overflow
SpeedCap == 1000

FeedBack ==
    IF /\ last.op = "toSwerveModuleStates"
       /\ \A i \in 1..Len(last.ret) : NLt(last.ret[i].speed, NInt(SpeedCap))
    THEN {last.ret} ELSE {}

toChassisSpeeds(wheel_states) ==
    /\ last' = [op |-> "toChassisSpeeds",
                wheel_states |-> wheel_states,
                source |-> IF wheel_states \in FeedBack THEN <<last>> ELSE <<>>,
                raised |-> UpdateRaises(kinematics, wheel_states),
                ret |-> IF UpdateRaises(kinematics, wheel_states) THEN <<>>
                        ELSE <<ChassisSpeedsOf(kinematics, wheel_states)>>,
                pre |-> Objects]
    /\ UNCHANGED <<kinematics, odometry>>

\* Module states to normalize: the speeds 5, 6, 4, 7, and lists with reversed
\* modules
Reverse10 == SwerveModuleState(NInt(-10), Rotation2d(Quarter(1)))

NormalizeInputs ==
    { <<Forward5, SwerveModuleState(NInt(6), _zero_rotation),
        SwerveModuleState(NInt(4), _zero_rotation),
        SwerveModuleState(NInt(7), _zero_rotation)>>,
      <<Reverse10, SwerveModuleState(NInt(2), _zero_rotation)>>,
      <<Diagonal5, SwerveModuleState(NInt(-4), _zero_rotation)>>,
      <<Reverse10, SwerveModuleState(NInt(-2), _zero_rotation), Reverse10>> }

MaxSpeedInputs == { NFrac(11, 2), NInt(3) }

\* The static method: moduleStates is the caller's list, ret the list as the
\* call leaves it
normalizeWheelSpeeds(moduleStates, attainableMaxSpeed) ==
    /\ last' = [op |-> "normalizeWheelSpeeds",
                moduleStates |-> moduleStates,
                attainableMaxSpeed |-> attainableMaxSpeed,
                raised |-> FALSE,
                ret |-> NormalizedStates(moduleStates, attainableMaxSpeed),
                pre |-> Objects]
    /\ UNCHANGED <<kinematics, odometry>>

NoCall == [op |-> "none", raised |-> FALSE]

\* The state after SwerveDriveKinematics(*wheels): the object, or none when the
\* constructor raised
InitKinematics ==
    /\ \E wheels \in WheelSets \cup ShortWheelSets :
          /\ kinematics = IF ConstructionFails(wheels) THEN <<>>
                          ELSE SwerveDriveKinematics(wheels)
          /\ last = [op |-> "__init__",
                     wheels |-> wheels,
                     raised |-> ConstructionFails(wheels)]
    /\ odometry = <<>>
    /\ calls = 0

\* There is an object to call: the constructor returned
Constructed == ~(last.op = "__init__" /\ last.raised)

\* One more call is made, while fewer than max have been
Called(max) == calls < max /\ calls' = calls + 1

NextKinematics ==
    \/ /\ Constructed
       /\ \E chassisSpeeds \in SpeedInputs, centerOfRotation \in CorInputs :
             Called(MaxKinCalls) /\ toSwerveModuleStates(chassisSpeeds, centerOfRotation)
    \/ /\ Constructed
       /\ \E wheel_states \in StateInputs(kinematics.num_modules) \cup FeedBack :
             Called(MaxKinCalls) /\ toChassisSpeeds(wheel_states)
    \/ /\ Constructed
       /\ \E moduleStates \in NormalizeInputs \cup FeedBack,
             attainableMaxSpeed \in MaxSpeedInputs :
             Called(MaxKinCalls) /\ normalizeWheelSpeeds(moduleStates, attainableMaxSpeed)

SpecKinematics == InitKinematics /\ [][NextKinematics]_vars

(***************************************************************************)
(* wpilib.kinematics.SwerveDriveOdometry.  The kinematics attribute is the  *)
(* shared object held in the variable kinematics; _previous_time is <<>>    *)
(* for None and <<t>> for the time t.                                       *)
(***************************************************************************)
\* Pose2d()
DefaultPose == Pose2d(_identity_translation, _zero_rotation)

\* Mutation: the offset is taken the other way round
GyroOffsetReversed(rotation, gyroAngle) == Rotation2d_sub(gyroAngle, rotation)

\* pose.rotation - gyroAngle
GyroOffset(rotation, gyroAngle) == Rotation2d_sub(rotation, gyroAngle)

\* SwerveDriveOdometry.__init__(kinematics, gyroAngle, initialPose)
SwerveDriveOdometry(gyroAngle, initialPose) ==
    [_pose |-> initialPose,
     _previous_time |-> <<>>,
     _previous_angle |-> initialPose.rotation,
     _gyro_offset |-> GyroOffset(initialPose.rotation, gyroAngle)]

\* Mutation: resetting also forgets the previous timestamp
OdometryAfterResetForgetting(self, pose, gyroAngle) ==
    [self EXCEPT !._pose = pose,
                 !._previous_time = <<>>,
                 !._previous_angle = pose.rotation,
                 !._gyro_offset = GyroOffset(pose.rotation, gyroAngle)]

\* The odometry object after resetPosition(pose, gyroAngle)
OdometryAfterReset(self, pose, gyroAngle) ==
    [self EXCEPT !._pose = pose,
                 !._previous_angle = pose.rotation,
                 !._gyro_offset = GyroOffset(pose.rotation, gyroAngle)]

\* Mutation: the first update measures time from zero
DeltaTimeFromZero(self, currentTime) ==
    IF self._previous_time # <<>> THEN NSub(currentTime, self._previous_time[1])
    ELSE currentTime

\* delta_time = currentTime - prev_time if prev_time is not None else 0
DeltaTime(self, currentTime) ==
    IF self._previous_time # <<>> THEN NSub(currentTime, self._previous_time[1])
    ELSE NInt(0)

\* Mutation: the raw gyro angle is used as the heading
CorrectedAngleRaw(self, gyroAngle) == gyroAngle

\* angle = gyroAngle + self._gyro_offset
CorrectedAngle(self, gyroAngle) == Rotation2d_add(gyroAngle, self._gyro_offset)

\* Mutation: the chassis speed is not scaled by the elapsed time
UpdateTwistUnscaled(self, speeds, delta_time, angle) ==
    Twist2d(speeds.vx, speeds.vy,
            getRadians(Rotation2d_sub(angle, self._previous_angle)))

\* Twist2d(dx * delta_time, dy * delta_time, (angle - previous_angle).getRadians())
UpdateTwist(self, speeds, delta_time, angle) ==
    Twist2d(NMul(speeds.vx, delta_time),
            NMul(speeds.vy, delta_time),
            getRadians(Rotation2d_sub(angle, self._previous_angle)))

\* Mutation: a successful update does not store the corrected heading as the
\* previous heading
IntegratedKeepingPreviousAngle(self, currentTime, delta_time, angle, speeds) ==
    [self EXCEPT
        !._previous_time = <<currentTime>>,
        !._pose = Pose2d(exp(self._pose,
                             UpdateTwist(self, speeds, delta_time, angle)).translation,
                         angle)]

\* The odometry object a successful update leaves, for the elapsed time, the
\* corrected heading and the chassis speeds it computed
Integrated(self, currentTime, delta_time, angle, speeds) ==
    [self EXCEPT
        !._previous_time = <<currentTime>>,
        !._previous_angle = angle,
        !._pose = Pose2d(exp(self._pose,
                             UpdateTwist(self, speeds, delta_time, angle)).translation,
                         angle)]

\* Mutation: an update also re-zeroes the gyro offset
OdometryAfterUpdateRezeroing(self, kin, currentTime, gyroAngle, module_states) ==
    IF UpdateRaises(kin, module_states)
    THEN [self EXCEPT !._previous_time = <<currentTime>>]
    ELSE [Integrated(self, currentTime, DeltaTime(self, currentTime),
                     CorrectedAngle(self, gyroAngle),
                     ChassisSpeedsOf(kin, module_states))
            EXCEPT !._gyro_offset = _zero_rotation]

\* The odometry object after updateWithTime(currentTime, gyroAngle, *module_states):
\* the timestamp is stored before toChassisSpeeds can raise
OdometryAfterUpdate(self, kin, currentTime, gyroAngle, module_states) ==
    IF UpdateRaises(kin, module_states)
    THEN [self EXCEPT !._previous_time = <<currentTime>>]
    ELSE Integrated(self, currentTime, DeltaTime(self, currentTime),
                    CorrectedAngle(self, gyroAngle),
                    ChassisSpeedsOf(kin, module_states))

(***************************************************************************)
(* The odometry object in use, on a kinematics object it shares with the   *)
(* caller.                                                                 *)
(***************************************************************************)
MaxCalls == 3

\* Module layouts: two modules, and the four corners of a square
OdometryWheelSets ==
    { <<T2(1, 0), T2(-1, 0)>>,
      <<T2(12, 12), T2(12, -12), T2(-12, 12), T2(-12, -12)>> }

\* Gyro readings: 0 and 90 degrees
GyroInputs == { Rotation2d(Quarter(0)), Rotation2d(Quarter(1)) }

InitialPoses == { DefaultPose, Pose2d(T2(1, 2), Rotation2d(Quarter(1))) }

\* Poses to reset to: one facing 90 degrees, one facing 270 degrees
ResetPoses ==
    { Pose2d(T2(1, 2), Rotation2d(Quarter(1))),
      Pose2d(_identity_translation, Rotation2d(Quarter(3))) }

TimeInputs == { NInt(0), NFrac(1, 10) }

\* Measured module states: all forward, all along (3, 4), and one state too few
MeasuredInputs(n) ==
    { Tabulate(n, LAMBDA i : Forward5),
      Tabulate(n, LAMBDA i : Diagonal5),
      Tabulate(n - 1, LAMBDA i : Forward5) }

\* What the next call remembers of the call before it
Prior(l) ==
    IF l.op = "none" THEN <<>>
    ELSE IF l.op = "resetPosition"
    THEN <<[op |-> l.op, pose |-> l.pose, gyroAngle |-> l.gyroAngle,
            previous_time |-> l.pre.odometry._previous_time]>>
    ELSE <<[op |-> l.op]>>

resetPosition(pose, gyroAngle) ==
    /\ odometry' = OdometryAfterReset(odometry, pose, gyroAngle)
    /\ last' = [op |-> "resetPosition",
                pose |-> pose,
                gyroAngle |-> gyroAngle,
                raised |-> FALSE,
                prior |-> Prior(last),
                pre |-> Objects]
    /\ UNCHANGED kinematics

getPose ==
    /\ last' = [op |-> "getPose",
                raised |-> FALSE,
                ret |-> <<odometry._pose>>,
                prior |-> Prior(last),
                pre |-> Objects]
    /\ UNCHANGED <<kinematics, odometry>>

updateWithTime(currentTime, gyroAngle, module_states) ==
    /\ odometry' = OdometryAfterUpdate(odometry, kinematics, currentTime, gyroAngle,
                                       module_states)
    /\ last' = [op |-> "updateWithTime",
                currentTime |-> currentTime,
                gyroAngle |-> gyroAngle,
                module_states |-> module_states,
                delta_time |-> DeltaTime(odometry, currentTime),
                raised |-> UpdateRaises(kinematics, module_states),
                ret |-> IF UpdateRaises(kinematics, module_states) THEN <<>>
                        ELSE <<odometry'._pose>>,
                prior |-> Prior(last),
                pre |-> Objects]
    /\ UNCHANGED kinematics

Init ==
    /\ \E wheels \in OdometryWheelSets : kinematics = SwerveDriveKinematics(wheels)
    /\ \E gyroAngle \in GyroInputs, initialPose \in InitialPoses :
          odometry = SwerveDriveOdometry(gyroAngle, initialPose)
    /\ last = NoCall
    /\ calls = 0

Next ==
    \/ \E currentTime \in TimeInputs, gyroAngle \in GyroInputs,
          module_states \in MeasuredInputs(kinematics.num_modules) :
          Called(MaxCalls) /\ updateWithTime(currentTime, gyroAngle, module_states)
    \/ \E pose \in ResetPoses, gyroAngle \in GyroInputs :
          Called(MaxCalls) /\ resetPosition(pose, gyroAngle)
    \/ Called(MaxCalls) /\ getPose
    \/ Called(MaxCalls)
          /\ toSwerveModuleStates(ChassisSpeeds(NInt(0), NInt(4), NInt(1)), T2(1, 0))

Spec == Init /\ [][Next]_vars

(***************************************************************************)
(* The value types in use: calls of the constructors and operators of      *)
(* Rotation2d and Pose2d and of ChassisSpeeds.fromFieldRelativeSpeeds, on   *)
(* given values and on the value the call before returned.  There are no   *)
(* kinematics and odometry objects; last records the call, its arguments   *)
(* and the value it returned.  The angle -pi is left out of the inputs: its *)
(* float lies inside (-pi, pi], which exact arithmetic cannot tell apart.   *)
(***************************************************************************)
MaxGeoCalls == 2

MinusPi == Angle(NInt(-1), NInt(0), -1)

RotationOps ==
    { "Rotation2d(value)", "Rotation2d.fromDegrees", "Rotation2d(x, y)",
      "Rotation2d.__add__", "Rotation2d.__neg__", "Rotation2d.__sub__",
      "Rotation2d.__mul__" }

PoseOps == { "Pose2d.__add__", "Pose2d.relativeTo", "Pose2d.exp" }

\* Radians: 0, 90, 180, -90, 270 and 450 degrees
RadianInputs == { NPi(0, 2), NPi(1, 2), NPi(2, 2), NPi(-1, 2), NPi(3, 2), NPi(5, 2) }

DegreeInputs == { NInt(90), NInt(-90), NInt(270), NInt(360) }

\* Raw components: off the axes, on them, of no length, and shorter than 1e-6
ComponentInputs ==
    { <<NInt(3), NInt(4)>>, <<NInt(-3), NInt(-4)>>, <<NInt(0), NInt(2)>>,
      <<NInt(-1), NInt(0)>>, <<NInt(0), NInt(0)>>, <<NInt(0), NFrac(1, 2000000)>> }

ScalarInputs == { NInt(0), NInt(2), NInt(3), NInt(-1), NFrac(1, 2) }

\* The rotation the call before returned
ReturnedRotation ==
    IF last.op \in RotationOps /\ last.ret.value # MinusPi THEN {last.ret} ELSE {}

RotationInputs ==
    { _zero_rotation,
      Rotation2d(Quarter(1)),
      Rotation2d(Quarter(2)),
      Rotation2d(Quarter(3)),
      Rotation2dXY(NInt(3), NInt(4)) } \cup ReturnedRotation

\* The numbers x that are a multiple of a quarter turn other than -pi
IsQuarterMultiple(x) ==
    /\ x.m = QZero /\ x.z = QZero /\ QMul(QInt(2), x.p)[2] = 1
    /\ x # NPi(-1, 1)

RationalPose(pose) == NIsQ(pose.translation.x) /\ NIsQ(pose.translation.y)

\* The pose the call before returned
ReturnedPose ==
    IF last.op \in PoseOps /\ RationalPose(last.ret) THEN {last.ret} ELSE {}

\* Poses: at the origin, facing 90, 180 and 270 degrees, and facing along (3, 4)
PoseInputs ==
    { DefaultPose,
      Pose2d(T2(5, 5), Rotation2d(Quarter(1))),
      Pose2d(T2(3, -1), Rotation2d(Quarter(2))),
      Pose2d(T2(1, 2), Rotation2d(Quarter(3))),
      Pose2d(T2(1, 2), Rotation2dXY(NInt(3), NInt(4))) } \cup ReturnedPose

TransformInputs ==
    { Transform2d(T2(1, 0), _zero_rotation),
      Transform2d(T2(2, -3), Rotation2d(Quarter(1))),
      Transform2d(T2(0, 1), Rotation2d(Quarter(3))) }

\* Twists: straight, diagonal, the quarter circle of radius 5, and half a turn
TwistInputs ==
    { Twist2d(NInt(5), NInt(0), Quarter(0)),
      Twist2d(NInt(2), NInt(2), Quarter(0)),
      Twist2d(NPi(5, 2), NInt(0), Quarter(1)),
      Twist2d(NInt(1), NInt(2), Quarter(2)),
      Twist2d(NInt(3), NInt(4), Quarter(-1)) }

VelocityInputs == { <<NInt(1), NInt(0)>>, <<NInt(3), NInt(-4)>>, <<NInt(0), NInt(0)>> }

OmegaInputs == { NInt(0), NFrac(1, 2) }

\* A call that returned ret
Returned(op, args, ret) ==
    /\ last' = [op |-> op, args |-> args, raised |-> FALSE, ret |-> ret]
    /\ UNCHANGED <<kinematics, odometry>>

FromRadians(value) ==
    Returned("Rotation2d(value)", <<value>>, Rotation2d(AngleOf(value)))

FromDegrees(degrees) ==
    Returned("Rotation2d.fromDegrees", <<degrees>>, fromDegrees(degrees))

\* Only for components whose hypot is a number of the model
FromComponents(x, y) ==
    /\ HypotExact(x, y)
    /\ Returned("Rotation2d(x, y)", <<x, y>>, Rotation2dXY(x, y))

Compose(self, other) ==
    Returned("Rotation2d.__add__", <<self, other>>, Rotation2d_add(self, other))

\* Not for the angle pi, whose negation is left out
Negate(self) ==
    /\ AngleNeg(self.value) # MinusPi
    /\ Returned("Rotation2d.__neg__", <<self>>, Rotation2d_neg(self))

Subtract(self, other) ==
    Returned("Rotation2d.__sub__", <<self, other>>, Rotation2d_sub(self, other))

\* Only where the product is a multiple of a quarter turn, which has a sine and
\* a cosine in the model
Scale(self, other) ==
    /\ OnAxis(self.value)
    /\ IsQuarterMultiple(NMul(AngleNum(self.value), other))
    /\ Returned("Rotation2d.__mul__", <<self, other>>, Rotation2d_mul(self, other))

TransformBy(self, other) ==
    Returned("Pose2d.__add__", <<self, other>>, Pose2d_add(self, other))

Minus(self, other) ==
    Returned("Pose2d.__sub__", <<self, other>>, Pose2d_sub(self, other))

RelativeTo(self, other) ==
    Returned("Pose2d.relativeTo", <<self, other>>, relativeTo(self, other))

Exp(self, twist) ==
    Returned("Pose2d.exp", <<self, twist>>, exp(self, twist))

\* Only between poses a multiple of a quarter turn apart, where dtheta is a
\* number of the model
Log(self, end) ==
    /\ OnAxis(Rotation2d_sub(end.rotation, self.rotation).value)
    /\ Returned("Pose2d.log", <<self, end>>, log(self, end))

FromFieldRelative(vx, vy, omega, robotAngle) ==
    Returned("ChassisSpeeds.fromFieldRelativeSpeeds", <<vx, vy, omega, robotAngle>>,
             fromFieldRelativeSpeeds(vx, vy, omega, robotAngle))

InitGeometry ==
    /\ kinematics = <<>>
    /\ odometry = <<>>
    /\ last = NoCall
    /\ calls = 0

NextGeometry ==
    \/ \E value \in RadianInputs : Called(MaxGeoCalls) /\ FromRadians(value)
    \/ \E degrees \in DegreeInputs : Called(MaxGeoCalls) /\ FromDegrees(degrees)
    \/ \E xy \in ComponentInputs : Called(MaxGeoCalls) /\ FromComponents(xy[1], xy[2])
    \/ \E self \in RotationInputs, other \in RotationInputs :
          Called(MaxGeoCalls) /\ Compose(self, other)
    \/ \E self \in RotationInputs : Called(MaxGeoCalls) /\ Negate(self)
    \/ \E self \in RotationInputs, other \in RotationInputs :
          Called(MaxGeoCalls) /\ Subtract(self, other)
    \/ \E self \in RotationInputs, other \in ScalarInputs :
          Called(MaxGeoCalls) /\ Scale(self, other)
    \/ \E self \in PoseInputs, other \in TransformInputs :
          Called(MaxGeoCalls) /\ TransformBy(self, other)
    \/ \E self \in PoseInputs, other \in PoseInputs :
          Called(MaxGeoCalls) /\ Minus(self, other)
    \/ \E self \in PoseInputs, other \in PoseInputs :
          Called(MaxGeoCalls) /\ RelativeTo(self, other)
    \/ \E self \in PoseInputs, twist \in TwistInputs :
          Called(MaxGeoCalls) /\ Exp(self, twist)
    \/ \E self \in PoseInputs, end \in PoseInputs :
          Called(MaxGeoCalls) /\ Log(self, end)
    \/ \E v \in VelocityInputs, omega \in OmegaInputs, robotAngle \in RotationInputs :
          Called(MaxGeoCalls) /\ FromFieldRelative(v[1], v[2], omega, robotAngle)

SpecGeometry == InitGeometry /\ [][NextGeometry]_vars

(***************************************************************************)
(* Properties of SwerveDriveKinematics (checked under SpecKinematics).     *)
(***************************************************************************)
IsForward == last.op = "toChassisSpeeds" /\ ~last.raised

IsInverse == last.op = "toSwerveModuleStates"

\* The inverse-kinematics matrix of the given modules and center of rotation,
\* written out row by row
MatrixFor(modules, cor) ==
    Tabulate(2 * Len(modules), LAMBDA r :
        IF r % 2 = 1
        THEN <<NInt(1), NInt(0), NSub(cor.y, modules[(r + 1) \div 2].y)>>
        ELSE <<NInt(0), NInt(1), NSub(modules[r \div 2].x, cor.x)>>)

\* Centers of rotation near enough for the matrix products to be computed
CenterCap == 1000

NearCenter(cor) ==
    /\ NLt(NAbs(cor.x), NInt(CenterCap))
    /\ NLt(NAbs(cor.y), NInt(CenterCap))

C8_ForwardIgnoresCenterOfRotation ==
    /\ IsInverse =>
         kinematics.forward_kinematics = last.pre.kinematics.forward_kinematics
    /\ IsForward =>
         LET fresh == [modules |-> kinematics.modules,
                       forward_kinematics |->
                           pinv(MatrixFor(kinematics.modules, _identity_translation))]
         IN  last.ret = <<ChassisSpeedsOf(fresh, last.wheel_states)>>

\* toChassisSpeeds returned a rotating chassis speed while another center of
\* rotation was cached
C8_Witness ==
    /\ IsForward
    /\ kinematics._prev_cor # _identity_translation
    /\ last.ret[1].omega # NInt(0)

\* The velocity vector of module i for a chassis speed and center of rotation
ExpectedVelocity(modules, i, speeds, cor) ==
    [x |-> NAdd(speeds.vx, NMul(speeds.omega, NSub(cor.y, modules[i].y))),
     y |-> NAdd(speeds.vy, NMul(speeds.omega, NSub(modules[i].x, cor.x)))]

\* The rotation pointing along (x, y): the identity for the zero vector
PointsAlong(angle, x, y) ==
    LET h == Hypot(x, y)
    IN  IF NIsZero(h) THEN angle = _zero_rotation
        ELSE /\ angle.cos = NDiv(x, h)
             /\ angle.sin = NDiv(y, h)
             /\ angle.value = Atan2(angle.sin, angle.cos)

\* C9 as stated: every toSwerveModuleStates call returns N states in construction
\* order, module i having speed = hypot and angle = direction of the velocity
\* vector for the center of rotation passed to that call.
C9_StatesForPassedCenter ==
    IsInverse =>
        LET modules == last.pre.kinematics.modules
        IN  /\ Len(last.ret) = Len(modules)
            /\ \A i \in 1..Len(modules) :
                 LET v == ExpectedVelocity(modules, i, last.chassisSpeeds,
                                           last.centerOfRotation)
                 IN  /\ last.ret[i].speed = Hypot(v.x, v.y)
                     /\ PointsAlong(last.ret[i].angle, v.x, v.y)

\* C9 amended: the velocity vector is taken for the center of rotation passed,
\* or for the cached one when the two are equal under Translation2d equality
\* (math.isclose on both coordinates); the speed is its hypot; the angle is its
\* direction when the hypot exceeds 1e-6 and the identity rotation otherwise.
C9_StatesForEffectiveCenter ==
    IsInverse =>
        LET modules == last.pre.kinematics.modules
            cached == last.pre.kinematics._prev_cor
            cor == IF Translation2d_eq(cached, last.centerOfRotation)
                   THEN cached ELSE last.centerOfRotation
        IN  /\ Len(last.ret) = Len(modules)
            /\ \A i \in 1..Len(modules) :
                 LET v == ExpectedVelocity(modules, i, last.chassisSpeeds, cor)
                     h == Hypot(v.x, v.y)
                 IN  /\ last.ret[i].speed = h
                     /\ IF NGtInvInt(h, MagnitudeTolInv)
                        THEN PointsAlong(last.ret[i].angle, v.x, v.y)
                        ELSE last.ret[i].angle = _zero_rotation

\* A turning chassis speed was converted for the robot center right after a call
\* with another center of rotation
C9_Witness ==
    /\ IsInverse
    /\ last.pre.kinematics._prev_cor # _identity_translation
    /\ last.centerOfRotation = _identity_translation
    /\ last.chassisSpeeds.omega # NInt(0)
    /\ \E i \in 1..Len(last.ret) : last.ret[i].angle # _zero_rotation

\* toChassisSpeeds was given the states toSwerveModuleStates(s) had just returned
\* for the default center of rotation
IsRoundTrip ==
    /\ IsForward
    /\ last.source # <<>>
    /\ last.source[1].centerOfRotation = _identity_translation

\* C10 as stated: for every kinematics object and chassis speed s, toChassisSpeeds
\* of the states toSwerveModuleStates(s) returned is s.
C10_RoundTrip ==
    IsRoundTrip => last.ret[1] = last.source[1].chassisSpeeds

AllCoincident(modules) ==
    \A i \in 1..Len(modules) : modules[i] = modules[1]

\* C10 amended: it is s when the module offsets are not all the same point and
\* every module's velocity vector is zero or longer than 1e-6.
C10_RoundTripWhenInvertible ==
    ( /\ IsRoundTrip
      /\ ~AllCoincident(kinematics.modules)
      /\ \A i \in 1..Len(last.wheel_states) :
            \/ NIsZero(last.wheel_states[i].speed)
            \/ NGtInvInt(last.wheel_states[i].speed, MagnitudeTolInv) )
    => last.ret[1] = last.source[1].chassisSpeeds

\* A turning and strafing chassis speed was recovered on three modules
C10_Witness ==
    /\ IsRoundTrip
    /\ ~AllCoincident(kinematics.modules)
    /\ Len(kinematics.modules) = 3
    /\ last.source[1].chassisSpeeds.omega # NInt(0)
    /\ last.source[1].chassisSpeeds.vy # NInt(0)
    /\ last.ret[1] = last.source[1].chassisSpeeds

(* Properties of SwerveDriveOdometry (checked under Spec).                 *)
(***************************************************************************)
IsUpdate == last.op = "updateWithTime" /\ ~last.raised

AfterReset == last.prior # <<>> /\ last.prior[1].op = "resetPosition"

\* Two rotations point the same way
SameHeading(a, b) == a.cos = b.cos /\ a.sin = b.sin

\* rotation is the composition of the rotations a and b: the direction of a
\* turned by b, its radians the principal value
IsComposition(rotation, a, b) ==
    /\ rotation.cos = NSub(NMul(a.cos, b.cos), NMul(a.sin, b.sin))
    /\ rotation.sin = NAdd(NMul(a.cos, b.sin), NMul(a.sin, b.cos))
    /\ rotation.value = Atan2(rotation.sin, rotation.cos)

\* rotation is a - b
IsDifference(rotation, a, b) ==
    /\ rotation.cos = NAdd(NMul(a.cos, b.cos), NMul(a.sin, b.sin))
    /\ rotation.sin = NSub(NMul(a.sin, b.cos), NMul(a.cos, b.sin))
    /\ rotation.value = Atan2(rotation.sin, rotation.cos)

\* C1: after a successful updateWithTime the rotation of the returned pose, which
\* is the pose getPose returns, is the gyro angle composed with the gyro offset;
\* only resetPosition changes the offset, which is pose.rotation - gyroAngle of
\* the construction or the most recent reset.
C1_RotationIsGyroPlusOffset ==
    /\ IsUpdate =>
         /\ IsComposition(last.ret[1].rotation, last.gyroAngle,
                          last.pre.odometry._gyro_offset)
         /\ odometry._pose = last.ret[1]
    /\ last.op \notin {"none", "resetPosition"} =>
         odometry._gyro_offset = last.pre.odometry._gyro_offset
    /\ last.op = "resetPosition" =>
         IsDifference(odometry._gyro_offset, last.pose.rotation, last.gyroAngle)
    /\ last.op = "none" =>
         \E gyroAngle \in GyroInputs, initialPose \in InitialPoses :
            IsDifference(odometry._gyro_offset, initialPose.rotation, gyroAngle)

\* A tracking update with moving modules turned the pose under a non-zero offset
C1_Witness ==
    /\ IsUpdate
    /\ last.pre.odometry._gyro_offset # _zero_rotation
    /\ last.pre.odometry._previous_time # <<>>
    /\ last.delta_time # NInt(0)
    /\ ~SameHeading(odometry._pose.rotation, last.pre.odometry._pose.rotation)
    /\ odometry._pose.translation # last.pre.odometry._pose.translation

\* C2: an updateWithTime made while no previous timestamp exists uses dt = 0 and
\* leaves the pose translation as it was.
C2_FirstUpdateKeepsTranslation ==
    (last.op = "updateWithTime" /\ last.pre.odometry._previous_time = <<>>) =>
        /\ last.delta_time = NInt(0)
        /\ odometry._pose.translation = last.pre.odometry._pose.translation
        /\ ~last.raised => last.ret[1].translation = last.pre.odometry._pose.translation

\* A first update at a non-zero time, with moving modules and a turned heading
C2_Witness ==
    /\ IsUpdate
    /\ last.pre.odometry._previous_time = <<>>
    /\ last.currentTime # NInt(0)
    /\ last.module_states[1] = Diagonal5
    /\ ~SameHeading(odometry._pose.rotation, last.pre.odometry._pose.rotation)

\* The translation after moving by (vx, vy) * dt in the heading of pose
MovedStraight(pose, speeds, dt) ==
    Translation2d_add(pose.translation,
                      rotateBy(Translation2d(NMul(speeds.vx, dt), NMul(speeds.vy, dt)),
                               pose.rotation))

\* C3: a tracking update whose corrected heading points the way the previous
\* heading did moves the translation by (vx, vy) * (t - previousTime) rotated
\* into the pose's heading, (vx, vy) being the forward kinematics of the states,
\* and keeps the heading; all modules at speed 5 and angle 0 for 0.1 time units
\* from the origin give (0.5, 0).
C3_StraightLineMotion ==
    ( /\ IsUpdate
      /\ last.pre.odometry._previous_time # <<>>
      /\ SameHeading(Rotation2d_add(last.gyroAngle, last.pre.odometry._gyro_offset),
                     last.pre.odometry._previous_angle) )
    => LET o == last.pre.odometry
           dt == NSub(last.currentTime, o._previous_time[1])
           v == ChassisSpeedsOf(last.pre.kinematics, last.module_states)
       IN  /\ odometry._pose.translation = MovedStraight(o._pose, v, dt)
           /\ SameHeading(odometry._pose.rotation, o._pose.rotation)
           /\ ( /\ o._pose = DefaultPose
                /\ dt = NFrac(1, 10)
                /\ \A i \in 1..Len(last.module_states) : last.module_states[i] = Forward5 )
              => odometry._pose.translation = Translation2d(NFrac(1, 2), NInt(0))

\* The example: 0.1 time units at speed 5 from the origin
C3_Witness ==
    /\ IsUpdate
    /\ last.pre.odometry._previous_time = <<NInt(0)>>
    /\ last.currentTime = NFrac(1, 10)
    /\ last.pre.odometry._pose = DefaultPose
    /\ \A i \in 1..Len(last.module_states) : last.module_states[i] = Forward5
    /\ odometry._pose = Pose2d(Translation2d(NFrac(1, 2), NInt(0)), _zero_rotation)

\* The elapsed time an update uses on an odometry whose previous timestamp is
\* previous_time
ElapsedSince(previous_time, currentTime) ==
    IF previous_time = <<>> THEN NInt(0) ELSE NSub(currentTime, previous_time[1])

\* C4 as stated: after resetPosition(pose, g) the offset is pose.rotation - g and
\* the next update reports its gyro reading composed with that offset; with the
\* same reading g it reports a rotation equal to pose.rotation and moves along
\* that heading.
C4_SameReadingReportsPoseRotation ==
    (IsUpdate /\ AfterReset) =>
        LET r == last.prior[1]
            o == last.pre.odometry
            v == ChassisSpeedsOf(last.pre.kinematics, last.module_states)
        IN  /\ IsDifference(o._gyro_offset, r.pose.rotation, r.gyroAngle)
            /\ IsComposition(odometry._pose.rotation, last.gyroAngle, o._gyro_offset)
            /\ last.gyroAngle = r.gyroAngle =>
                 /\ Rotation2d_eq(odometry._pose.rotation, r.pose.rotation)
                 /\ odometry._pose.translation = MovedStraight(r.pose, v, last.delta_time)

\* The radians of the rotation lie in (-pi, pi]
IsPrincipal(rotation) == rotation.value = Atan2(rotation.sin, rotation.cos)

\* C4 amended: with the same reading g the update reports the rotation pointing
\* the way pose.rotation does, with its radians brought into (-pi, pi]; it equals
\* pose.rotation exactly when the radians of pose.rotation already lie there.
C4_SameReadingReportsPoseHeading ==
    (IsUpdate /\ AfterReset) =>
        LET r == last.prior[1]
            o == last.pre.odometry
            v == ChassisSpeedsOf(last.pre.kinematics, last.module_states)
        IN  /\ IsDifference(o._gyro_offset, r.pose.rotation, r.gyroAngle)
            /\ IsComposition(odometry._pose.rotation, last.gyroAngle, o._gyro_offset)
            /\ last.gyroAngle = r.gyroAngle =>
                 /\ SameHeading(odometry._pose.rotation, r.pose.rotation)
                 /\ IsPrincipal(odometry._pose.rotation)
                 /\ Rotation2d_eq(odometry._pose.rotation, r.pose.rotation)
                      <=> IsPrincipal(r.pose.rotation)
                 /\ odometry._pose.translation = MovedStraight(r.pose, v, last.delta_time)

\* A reset to a pose facing 270 degrees, then a tracking update with the same
\* gyro reading and moving modules
C4_Witness ==
    /\ IsUpdate
    /\ AfterReset
    /\ last.gyroAngle = last.prior[1].gyroAngle
    /\ ~IsPrincipal(last.prior[1].pose.rotation)
    /\ last.gyroAngle # _zero_rotation
    /\ last.delta_time # NInt(0)
    /\ odometry._pose.translation # last.prior[1].pose.translation

\* C5: resetPosition leaves the previous timestamp as it was, so the update
\* after a reset uses dt = 0 when no update came before the reset and
\* dt = time - the timestamp of the last update before the reset otherwise.
C5_ResetKeepsPreviousTime ==
    /\ last.op = "resetPosition" =>
         odometry._previous_time = last.pre.odometry._previous_time
    /\ (last.op = "updateWithTime" /\ AfterReset) =>
         last.delta_time = ElapsedSince(last.prior[1].previous_time, last.currentTime)

\* An update after a reset that followed an earlier update, with time elapsed
C5_Witness ==
    /\ IsUpdate
    /\ AfterReset
    /\ last.prior[1].previous_time # <<>>
    /\ last.delta_time # NInt(0)
    /\ last.delta_time = NSub(last.currentTime, last.prior[1].previous_time[1])

\* C6: getPose changes nothing and returns the pose; updateWithTime leaves the
\* gyro offset alone; neither updateWithTime nor resetPosition changes the
\* kinematics object (inverse matrix, forward matrix, cached center of
\* rotation); calls on the kinematics object leave the odometry alone.
C6_FrameConditions ==
    /\ last.op = "getPose" =>
         /\ odometry = last.pre.odometry
         /\ kinematics = last.pre.kinematics
         /\ last.ret = <<odometry._pose>>
    /\ last.op = "updateWithTime" =>
         /\ odometry._gyro_offset = last.pre.odometry._gyro_offset
         /\ kinematics._inverse_kinematics = last.pre.kinematics._inverse_kinematics
         /\ kinematics.forward_kinematics = last.pre.kinematics.forward_kinematics
         /\ kinematics._prev_cor = last.pre.kinematics._prev_cor
         /\ kinematics = last.pre.kinematics
    /\ last.op = "resetPosition" => kinematics = last.pre.kinematics
    /\ last.op = "toSwerveModuleStates" => odometry = last.pre.odometry

\* An update changed pose, previous heading and previous timestamp while another
\* center of rotation was cached and the gyro offset was not zero
C6_Witness ==
    /\ IsUpdate
    /\ kinematics._prev_cor # _identity_translation
    /\ odometry._gyro_offset # _zero_rotation
    /\ odometry._pose # last.pre.odometry._pose
    /\ odometry._previous_angle # last.pre.odometry._previous_angle
    /\ odometry._previous_time # last.pre.odometry._previous_time
    /\ last.pre.odometry._previous_time # <<>>

(***************************************************************************)
(* Properties of the static and failing calls of SwerveDriveKinematics      *)
(* (checked under SpecKinematics).                                          *)
(***************************************************************************)
IsNormalize == last.op = "normalizeWheelSpeeds"

\* The largest |speed| of the list, from the i-th module on
RECURSIVE MaxMagnitudeFrom(_, _)
MaxMagnitudeFrom(moduleStates, i) ==
    IF i = Len(moduleStates) THEN NAbs(moduleStates[i].speed)
    ELSE NMaxOf(NAbs(moduleStates[i].speed), MaxMagnitudeFrom(moduleStates, i + 1))

\* The list after is the list before with every speed multiplied by
\* limit / maximum, angles and order as they were
IsScaledBy(after, before, limit, maximum) ==
    /\ Len(after) = Len(before)
    /\ \A i \in 1..Len(before) :
         /\ after[i].angle = before[i].angle
         /\ after[i].speed = NMul(before[i].speed, NDiv(limit, maximum))

\* C11: normalizeWheelSpeeds takes the maximum of |speed| over the modules; when
\* it exceeds the attainable maximum every speed is multiplied by attainable
\* maximum / maximum, so that no |speed| exceeds the limit afterwards, otherwise
\* no speed changes; angles and list order never change.
C11_ScaledByLargestMagnitude ==
    IsNormalize =>
        IF NLt(last.attainableMaxSpeed, MaxMagnitudeFrom(last.moduleStates, 1))
        THEN /\ IsScaledBy(last.ret, last.moduleStates, last.attainableMaxSpeed,
                           MaxMagnitudeFrom(last.moduleStates, 1))
             /\ \A i \in 1..Len(last.ret) :
                  ~NLt(last.attainableMaxSpeed, NAbs(last.ret[i].speed))
        ELSE last.ret = last.moduleStates

\* C12: toChassisSpeeds given a number of module states other than the number of
\* wheels the object was constructed with raises and returns nothing; given
\* exactly that number it returns a ChassisSpeeds; the kinematics object is left
\* as it was.
C12_WrongCountRaises ==
    last.op = "toChassisSpeeds" =>
        /\ kinematics = last.pre.kinematics
        /\ IF Len(last.wheel_states) # Len(last.pre.kinematics.modules)
           THEN last.raised /\ last.ret = <<>>
           ELSE /\ ~last.raised
                /\ Len(last.ret) = 1
                /\ DOMAIN last.ret[1] = {"vx", "vy", "omega"}

\* toChassisSpeeds raised on one state too many, on an object whose inverse
\* matrix had been rebuilt for another center of rotation
C12_Witness ==
    /\ last.op = "toChassisSpeeds"
    /\ last.raised
    /\ Len(last.wheel_states) > Len(kinematics.modules)
    /\ kinematics._prev_cor # _identity_translation

\* The columns (1, 0) and (0, 1) of n modules
UnitColumns(n) ==
    Tabulate(2 * n, LAMBDA r : IF r % 2 = 1 THEN <<NInt(1), NInt(0)>>
                               ELSE <<NInt(0), NInt(1)>>)

\* C13: the constructor raises on fewer than 2 wheels and otherwise makes an
\* object of the wheels in the order given; every object has N >= 2, and no call
\* changes its N, its modules or the first two columns of its inverse matrix.
C13_AtLeastTwoModulesFixed ==
    /\ last.op = "__init__" =>
         /\ last.raised <=> Len(last.wheels) < 2
         /\ ~last.raised =>
              /\ kinematics.modules = last.wheels
              /\ kinematics.num_modules = Len(last.wheels)
    /\ Constructed =>
         /\ kinematics.num_modules >= 2
         /\ Len(kinematics.modules) = kinematics.num_modules
         /\ FirstTwoColumns(kinematics._inverse_kinematics)
              = UnitColumns(kinematics.num_modules)
    /\ last.op # "__init__" =>
         /\ kinematics.num_modules = last.pre.kinematics.num_modules
         /\ kinematics.modules = last.pre.kinematics.modules
         /\ FirstTwoColumns(kinematics._inverse_kinematics)
              = FirstTwoColumns(last.pre.kinematics._inverse_kinematics)

\* A second call rebuilt the third column of the inverse matrix of three modules
C13_Witness ==
    /\ IsInverse
    /\ calls = 2
    /\ kinematics.num_modules = 3
    /\ kinematics._inverse_kinematics # last.pre.kinematics._inverse_kinematics

\* C20: a module whose velocity vector, for the chassis speed and the center of
\* rotation in effect, is (0, 0) gets speed 0 and the identity rotation: angle 0,
\* cos 1, sin 0.
C20_ZeroVectorGivesIdentity ==
    IsInverse =>
        LET modules == last.pre.kinematics.modules
            cached == last.pre.kinematics._prev_cor
            cor == IF Translation2d_eq(cached, last.centerOfRotation)
                   THEN cached ELSE last.centerOfRotation
        IN  \A i \in 1..Len(modules) :
              LET v == ExpectedVelocity(modules, i, last.chassisSpeeds, cor)
              IN  (NIsZero(v.x) /\ NIsZero(v.y)) =>
                    /\ last.ret[i].speed = NInt(0)
                    /\ last.ret[i].angle.value = Atan2(NInt(0), NInt(1))
                    /\ last.ret[i].angle.cos = NInt(1)
                    /\ last.ret[i].angle.sin = NInt(0)

\* A turn about the position of the first module: it stands still while another
\* module moves
C20_Witness ==
    /\ IsInverse
    /\ last.chassisSpeeds.omega # NInt(0)
    /\ last.centerOfRotation = last.pre.kinematics.modules[1]
    /\ last.ret[1].speed = NInt(0)
    /\ last.ret[1].angle = _zero_rotation
    /\ \E i \in 1..Len(last.ret) : last.ret[i].speed # NInt(0)

(***************************************************************************)
(* Properties of the value types (checked under SpecGeometry).             *)
(***************************************************************************)
IsRotationCall == last.op \in RotationOps

\* cos and sin are the cosine and sine of the stored angle
IsConsistent(rotation) ==
    /\ rotation.cos = MathCos(rotation.value)
    /\ rotation.sin = MathSin(rotation.value)
    /\ NAdd(NMul(rotation.cos, rotation.cos), NMul(rotation.sin, rotation.sin)) = NInt(1)

\* The stored angle is atan2(sin, cos)
IsNormalized(rotation) == rotation.value = Atan2(rotation.sin, rotation.cos)

\* The angle lies strictly between -pi and pi
InsideTurn(value) ==
    IF OnAxis(value)
    THEN NLt(NPi(-1, 1), AngleNum(value)) /\ NLt(AngleNum(value), NPi(1, 1))
    ELSE value.w = 0

\* The angle lies below -pi or above pi
OutsideTurn(value) ==
    IF OnAxis(value)
    THEN NLt(AngleNum(value), NPi(-1, 1)) \/ NLt(NPi(1, 1), AngleNum(value))
    ELSE value.w # 0

\* C14 as stated: every Rotation value, however produced, has cos and sin the
\* cosine and sine of its stored angle, and its stored angle equal to
\* atan2(sin, cos).
C14_TripleConsistent ==
    IsRotationCall => IsConsistent(last.ret) /\ IsNormalized(last.ret)

\* The stored angle of a rotation made from an angle is that angle as given
AngleAsGiven ==
    /\ last.op = "Rotation2d(value)" => AngleNum(last.ret.value) = last.args[1]
    /\ last.op = "Rotation2d.fromDegrees" =>
         AngleNum(last.ret.value) = NMul(last.args[1], NPi(1, 180))
    /\ last.op = "Rotation2d.__neg__" =>
         /\ last.ret.cos = last.args[1].cos
         /\ last.ret.sin = NNeg(last.args[1].sin)
         /\ last.ret.value.w \in {-last.args[1].value.w, -last.args[1].value.w - 1}
         /\ OnAxis(last.args[1].value) =>
              AngleNum(last.ret.value) = NNeg(AngleNum(last.args[1].value))
    /\ last.op = "Rotation2d.__mul__" =>
         AngleNum(last.ret.value) = NMul(AngleNum(last.args[1].value), last.args[2])

\* C14 amended: cos and sin are always the cosine and sine of the stored angle.
\* A rotation made from raw (x, y), by compose or by subtract stores
\* atan2(sin, cos); one made from radians, from degrees, by negate or by scale
\* stores the angle as given (the radians, the degrees times pi/180, minus the
\* angle, the angle times k), which is atan2(sin, cos) when it lies strictly
\* between -pi and pi and is not when it lies below -pi or above pi.
C14_TripleConsistentAngleAsGiven ==
    IsRotationCall =>
        /\ IsConsistent(last.ret)
        /\ IF last.op \in {"Rotation2d(x, y)", "Rotation2d.__add__", "Rotation2d.__sub__"}
           THEN IsNormalized(last.ret)
           ELSE /\ AngleAsGiven
                /\ InsideTurn(last.ret.value) => IsNormalized(last.ret)
                /\ OutsideTurn(last.ret.value) => ~IsNormalized(last.ret)

\* The negation of a rotation of 270 degrees that the call before returned
C14_Witness ==
    /\ last.op = "Rotation2d.__neg__"
    /\ calls = 2
    /\ AngleNum(last.args[1].value) = NPi(3, 2)
    /\ AngleNum(last.ret.value) = NPi(-3, 2)
    /\ last.ret.sin = NInt(1)

\* a.compose(b).compose(negate(b)), for the call a.compose(b)
ComposedBack == Rotation2d_add(last.ret, Rotation2d_neg(last.args[2]))

\* C15 as stated: for all rotations a and b, however constructed, a composed with
\* b and then with negate(b) equals a under Rotation equality.
C15_ComposeNegateRestores ==
    last.op = "Rotation2d.__add__" => Rotation2d_eq(ComposedBack, last.args[1])

\* C15 amended: it is the rotation pointing the way a does with its stored angle
\* atan2(sin, cos); it equals a when the stored angle of a lies strictly between
\* -pi and pi, and does not when that lies below -pi or above pi.
C15_ComposeNegateRestoresHeading ==
    last.op = "Rotation2d.__add__" =>
        /\ SameHeading(ComposedBack, last.args[1])
        /\ IsNormalized(ComposedBack)
        /\ InsideTurn(last.args[1].value) => Rotation2d_eq(ComposedBack, last.args[1])
        /\ OutsideTurn(last.args[1].value) => ~Rotation2d_eq(ComposedBack, last.args[1])

\* The rotation along (3, 4) composed with a quarter turn
C15_Witness ==
    /\ last.op = "Rotation2d.__add__"
    /\ last.args[1] = Rotation2dXY(NInt(3), NInt(4))
    /\ last.args[2] = Rotation2d(Quarter(1))
    /\ last.ret.cos = NFrac(-4, 5)
    /\ ComposedBack = last.args[1]

\* self.exp(self.log(end)), for the call self.log(end)
ExpOfLog == exp(last.args[1], last.ret)

\* The example: from the identity pose to (5, 5, 90 degrees)
QuarterCirclePose == Pose2d(T2(5, 5), Rotation2d(Quarter(1)))

QuarterCircleTwist == Twist2d(NPi(5, 2), NInt(0), Quarter(1))

IsQuarterCircle ==
    /\ last.op = "Pose2d.log"
    /\ last.args = <<DefaultPose, QuarterCirclePose>>

AddedBack == Pose2d_add(last.args[2], last.ret)

IsLocalDelta(translation, b, a) ==
    /\ translation.x = NAdd(NMul(NSub(b.translation.x, a.translation.x), a.rotation.cos),
                            NMul(NSub(b.translation.y, a.translation.y), a.rotation.sin))
    /\ translation.y = NSub(NMul(NSub(b.translation.y, a.translation.y), a.rotation.cos),
                            NMul(NSub(b.translation.x, a.translation.x), a.rotation.sin))

IsStraight == last.op = "Pose2d.exp" /\ last.args[2].dtheta = Quarter(0)

\* The translation a straight twist leads to
StraightTarget(pose, twist) ==
    Translation2d_add(pose.translation,
                      rotateBy(Translation2d(twist.dx, twist.dy), pose.rotation))

\* From the identity pose a twist (d, 0, 0) gives exactly (d, 0) and rotation 0
ForwardFromIdentity ==
    (last.args[1] = DefaultPose /\ last.args[2].dy = NInt(0)) =>
        last.ret = Pose2d(Translation2d(last.args[2].dx, NInt(0)), _zero_rotation)

\* C18 as stated: for any pose p and twist (dx, dy, 0), p.exp(twist) has the
\* translation p.translation + (dx, dy) rotated by p.rotation and a rotation
\* equal to p.rotation; from the identity pose (d, 0, 0) gives (d, 0), rotation 0.
C18_StraightTwist ==
    IsStraight =>
        /\ last.ret.translation = StraightTarget(last.args[1], last.args[2])
        /\ Rotation2d_eq(last.ret.rotation, last.args[1].rotation)
        /\ ForwardFromIdentity

\* C18 amended: the rotation points the way p.rotation does with its stored angle
\* atan2(sin, cos); it equals p.rotation when the stored angle of p.rotation lies
\* strictly between -pi and pi, and does not when that lies below -pi or above
\* pi.
C18_StraightTwistUpToTurns ==
    IsStraight =>
        /\ last.ret.translation = StraightTarget(last.args[1], last.args[2])
        /\ SameHeading(last.ret.rotation, last.args[1].rotation)
        /\ IsNormalized(last.ret.rotation)
        /\ InsideTurn(last.args[1].rotation.value) =>
             Rotation2d_eq(last.ret.rotation, last.args[1].rotation)
        /\ OutsideTurn(last.args[1].rotation.value) =>
             ~Rotation2d_eq(last.ret.rotation, last.args[1].rotation)
        /\ ForwardFromIdentity

\* A diagonal twist from a pose away from the origin facing along (3, 4)
C18_Witness ==
    /\ IsStraight
    /\ last.args[1] = Pose2d(T2(1, 2), Rotation2dXY(NInt(3), NInt(4)))
    /\ last.args[2].dy # NInt(0)
    /\ last.ret.translation = Translation2d(NFrac(3, 5), NFrac(24, 5))

\* C19: fromFieldRelativeSpeeds(vx, vy, omega, robotAngle) returns (vx', vy',
\* omega) with (vx', vy') the vector (vx, vy) rotated by negate(robotAngle) as
\* Translation2d.rotateBy rotates, and omega as given; it changes no object.
C19_FieldRelativeTurnsBack ==
    last.op = "ChassisSpeeds.fromFieldRelativeSpeeds" =>
        LET turned == rotateBy(Translation2d(last.args[1], last.args[2]),
                               Rotation2d_neg(last.args[4]))
        IN  /\ last.ret.vx = turned.x
            /\ last.ret.vy = turned.y
            /\ last.ret.omega = last.args[3]
            /\ DOMAIN last.ret = {"vx", "vy", "omega"}
            /\ kinematics = <<>> /\ odometry = <<>>

\* A turning field velocity (3, -4) seen from a robot facing along (3, 4)
C19_Witness ==
    /\ last.op = "ChassisSpeeds.fromFieldRelativeSpeeds"
    /\ last.args[4] = Rotation2dXY(NInt(3), NInt(4))
    /\ last.args[3] # NInt(0)
    /\ last.ret.vx = NFrac(-7, 5)
    /\ last.ret.vy = NFrac(-24, 5)

(***************************************************************************)
(* Properties of failed updates and of the stored heading (checked under   *)
(* Spec).                                                                  *)
(***************************************************************************)
IsFailedUpdate == last.op = "updateWithTime" /\ last.raised

\* C21: an updateWithTime with a number of module states other than N fails and
\* leaves the odometry state (pose, previous heading, previous timestamp, gyro
\* offset) exactly what it was before the call; a failed first call leaves the
\* odometry never updated.
C21_FailedUpdateLeavesState ==
    /\ last.op = "updateWithTime" =>
         last.raised = (Len(last.module_states) # kinematics.num_modules)
    /\ IsFailedUpdate =>
         /\ odometry = last.pre.odometry
         /\ last.pre.odometry._previous_time = <<>> => odometry._previous_time = <<>>

\* What a failed update does keep: the pose, the previous heading and the gyro
\* offset
FailedUpdateKeepsPose ==
    IsFailedUpdate =>
        /\ odometry._pose = last.pre.odometry._pose
        /\ odometry._previous_angle = last.pre.odometry._previous_angle
        /\ odometry._gyro_offset = last.pre.odometry._gyro_offset
        /\ odometry._previous_time = <<last.currentTime>>

IsUpdated == last.op = "updateWithTime" /\ ~last.raised

\* The twist of an update whose dtheta is the corrected heading minus the
\* heading of the pose the update starts from
TwistFromPoseHeading(self, kin, currentTime, gyroAngle, module_states) ==
    Twist2d(NMul(ChassisSpeedsOf(kin, module_states).vx, DeltaTime(self, currentTime)),
            NMul(ChassisSpeedsOf(kin, module_states).vy, DeltaTime(self, currentTime)),
            getRadians(Rotation2d_sub(CorrectedAngle(self, gyroAngle),
                                      self._pose.rotation)))

\* C22: in every reachable state of the odometry (after construction and after
\* any updateWithTime and resetPosition calls, failed ones included) the stored
\* previous heading is the rotation of the current pose, so an update integrates
\* the twist whose dtheta is the new corrected heading minus the heading of the
\* pose it starts from.
C22_PreviousAngleIsPoseRotation ==
    /\ odometry._previous_angle = odometry._pose.rotation
    /\ IsUpdated =>
         odometry._pose =
             Pose2d(exp(last.pre.odometry._pose,
                        TwistFromPoseHeading(last.pre.odometry, last.pre.kinematics,
                                             last.currentTime, last.gyroAngle,
                                             last.module_states)).translation,
                    CorrectedAngle(last.pre.odometry, last.gyroAngle))

\* A turning update over a tenth of a second, the third call, from a pose whose
\* heading is not the identity
C22_Witness ==
    /\ IsUpdated
    /\ calls = 3
    /\ last.delta_time # NInt(0)
    /\ last.pre.odometry._pose.rotation # _zero_rotation
    /\ ~SameHeading(odometry._pose.rotation, last.pre.odometry._pose.rotation)
    /\ odometry._pose.translation # last.pre.odometry._pose.translation
    /\ odometry._previous_angle = odometry._pose.rotation

\* A failed update after which the stored previous heading is still the rotation
\* of the pose, neither being the identity
FailedUpdateKeepsHeadingPair ==
    /\ IsFailedUpdate
    /\ odometry._pose.rotation # _zero_rotation
    /\ odometry._previous_angle = odometry._pose.rotation

=============================================================================
